---- MODULE Spec2Model ----
(***************************************************************************)
(* Order-book replicas and stream adapters of the Kalshi / Polymarket      *)
(* arbitrage monitor (src/kalshi_api.py, src/polymarket_api.py) and the    *)
(* task structure of main (src/poly_kalshi_arb.py).                        *)
(*                                                                         *)
(* Python values are represented as follows:                               *)
(*   None               <<>>                                               *)
(*   an optional number <<>> (None) or <<n>>                               *)
(*   a tuple / list     a sequence                                         *)
(*   a dict             a function (a record when the keys are fixed)      *)
(*   list indexes       0-based as in the source; arr[i] is Nth(arr, i)    *)
(***************************************************************************)
EXTENDS Integers, Sequences, FiniteSets, TLC

VARIABLES
    korderbook,   \* KalshiBaseClient.orderbook: ticker -> stored snapshot message
    kbest,        \* KalshiBaseClient.best_offers["best_offers"]: None or a summary
    kstate,       \* position of the task running KalshiWebSocketClient.connect
    kout,         \* how the Kalshi connect() ended (on_close, on_error, ...)
    kcount,       \* number of inbound Kalshi messages read so far
    klast,        \* the last inbound Kalshi message read (history)
    krepeat,      \* the last Kalshi message repeated the one before it (history)
    kref,         \* the book under the reference ledger semantics (history)
    porderbook,   \* AsyncMarketDataClient.orderbook: asset_id -> book
    pstate,       \* position of the task running websocket_handler
    prunning,     \* AsyncMarketDataClient._running
    pwebsocket,   \* AsyncMarketDataClient.websocket is not None
    pout,         \* how websocket_handler ended (closed, error, ...)
    pcount,       \* number of inbound Polymarket messages read so far
    plast,        \* the last inbound Polymarket message read (history)
    prepeat,      \* the last Polymarket message repeated the one before it (history)
    ptick,        \* AsyncMarketDataClient.decimal_places
    prec,         \* decimal.getcontext().prec of the process
    ptask,        \* AsyncMarketDataClient._task: 0 for None, else the number of the
                  \* handler task it refers to, in order of creation
    pextra,       \* handler tasks created while an earlier one had not terminated
    queue,        \* the asyncio.Queue of main: (source_name, payload) pairs, each
                  \* followed by its number among the events of its source (history)
    qput,         \* source_name -> number of events put on the queue (history)
    qgot,         \* source_name -> number of the event dequeued last (history)
    qunfinished,  \* asyncio.Queue._unfinished_tasks: puts not yet matched by task_done()
    mstate,       \* position of main()
    mcause,       \* why main() left its first gather
    cstate,       \* state of the message_consumer task
    tstate,       \* state of the run_tk_event_loop task
    cons,         \* the local variables of message_consumer
    chist,        \* what the last iteration of message_consumer did (history)
    eng           \* a direct call of the arbitrage engine: None or inputs and results

kvars == <<korderbook, kbest, kstate, kout, kcount, klast, krepeat, kref>>

pvars == <<porderbook, pstate, prunning, pwebsocket, pout, pcount, plast, prepeat, ptick, prec>>

mvars == <<mstate, mcause, cstate, tstate>>

avars == <<cons, chist, eng>>

qvars == <<queue, qput, qgot, qunfinished>>

tvars == <<ptask, pextra>>

vars == <<korderbook, kbest, kstate, kout, kcount, klast, krepeat, kref,
          porderbook, pstate, prunning, pwebsocket, pout, pcount, plast, prepeat, ptick, prec,
          ptask, pextra,
          queue, qput, qgot, qunfinished, mstate, mcause, cstate, tstate, cons, chist, eng>>

-----------------------------------------------------------------------------
(* Bounds and input domains *)

\* Number of inbound messages one Kalshi connection delivers.
MaxKMsgs == 3

None == <<>>

KTickers == {"LAD", "AZ"}
KSides == {"yes", "no"}
KPrices == {1, 2, 3}
KDeltaValues == {-1, 0, 1}

\* Side lists a snapshot may carry: strictly ascending by price, positive quantities.
KSnapEmpty == << >>
KSnapOne == << <<2, 1>> >>
KSnapTwo == << <<1, 1>>, <<3, 2>> >>

\* The (yes, no) pairs of the snapshots.
KSnapBooks ==
    {<<KSnapEmpty, KSnapEmpty>>, <<KSnapOne, KSnapTwo>>, <<KSnapTwo, KSnapOne>>}

KSnapshots ==
    {[type |-> "orderbook_snapshot",
      msg |-> [market_ticker |-> t, yes |-> b[1], no |-> b[2]]] :
        t \in KTickers, b \in KSnapBooks}

KDeltas ==
    {[type |-> "orderbook_delta",
      msg |-> [market_ticker |-> t, side |-> s, price |-> p, delta |-> d]] :
        t \in KTickers, s \in KSides, p \in KPrices, d \in KDeltaValues}

\* A message of the other subscribed channel: no replica update.
KTickerMsgs == {[type |-> "ticker_v2"]}

\* Malformed input: text that is not JSON, and JSON without a "type" key.
KMalformed == {[raw |-> "not json"], [msg |-> "no type"]}

KMessages == KSnapshots \cup KDeltas \cup KTickerMsgs \cup KMalformed

\* Number of inbound messages one Polymarket connection delivers.
MaxPMsgs == 3

\* Number of handler tasks further calls of connect() may create.
MaxExtraConnects == 1

\* A Python str and a Python int: values of different types are never equal.
PyStr(s) == [ty |-> "str", v |-> s]
PyInt(n) == [ty |-> "int", v |-> n]
PyEq(a, b) == a.ty = b.ty /\ a.v = b.v

\* token_id -> outcome, as get_market returns them
PAssets == {"tokD", "tokA"}
POutcome(asset_id) == IF asset_id = "tokD" THEN "Dodgers" ELSE "Diamondbacks"

\* Prices and sizes arrive as JSON strings.
PPrices == {"0.01", "0.02", "0.03"}
PSizes == {PyStr("0"), PyStr("2")}
PSideNames == {"BUY", "SELL"}
PTimestamps == {"t1"}

\* Decimal(text) of a price string, in cents
Decimal(text) ==
    CASE text = "0.01" -> 1
      [] text = "0.02" -> 2
      [] text = "0.03" -> 3
      [] text = "0.40" -> 40
      [] text = "0.60" -> 60

\* Decimal(text) of a size string, in shares
DecimalSize(text) ==
    CASE text = "0" -> 0
      [] text = "1" -> 1
      [] text = "2" -> 2
      [] text = "3" -> 3
      [] text = "20000" -> 20000

PLevel(p, z) == [price |-> p, size |-> PyStr(z)]

\* Side lists a book message may carry: ascending by price, positive sizes.
PSnapEmpty == << >>
PSnapOne == <<PLevel("0.02", "1")>>
PSnapTwo == <<PLevel("0.01", "1"), PLevel("0.03", "2")>>

\* The (bids, asks) pairs of the book messages.
PSnapBooks == {<<PSnapOne, PSnapEmpty>>, <<PSnapOne, PSnapTwo>>, <<PSnapTwo, PSnapOne>>}

PBooks ==
    {[event_type |-> "book", asset_id |-> a, bids |-> b[1], asks |-> b[2], timestamp |-> t] :
        a \in PAssets, b \in PSnapBooks, t \in PTimestamps}

PChanges == {[price |-> p, side |-> d, size |-> z] : p \in PPrices, d \in PSideNames, z \in PSizes}

PPriceChanges ==
    {[event_type |-> "price_change", asset_id |-> a, changes |-> <<c>>, timestamp |-> t] :
        a \in PAssets, c \in PChanges, t \in PTimestamps}

PTickSizeChanges ==
    {[event_type |-> "tick_size_change", new_tick_size |-> ts] : ts \in {"0.01", "0.001"}}

\* A message of an event type parse_message ignores.
POtherMsgs == {[event_type |-> "last_trade_price"]}

\* Malformed input: text that is not JSON, and JSON without an "event_type" key.
PMalformed == {[raw |-> "not json"], [msg |-> "no event_type"]}

PMessages == PBooks \cup PPriceChanges \cup PTickSizeChanges \cup POtherMsgs \cup PMalformed

\* Books the REST call get_order_book returns in get_markets.
PRestBooks == {<<PSnapEmpty, PSnapEmpty>>, <<PSnapOne, PSnapOne>>}

\* price_change messages whose "changes" list has several entries: two entries
\* on one side, and three entries that come back to the (side, price) of the
\* first after an entry at another price.
PBatchChanges ==
    {[price |-> p, side |-> d, size |-> PyStr(z)] :
        p \in {"0.01", "0.02"}, d \in PSideNames, z \in {"1", "2"}}

PBatches ==
    {<<c1, c2>> : c1 \in PBatchChanges, c2 \in {c \in PBatchChanges : c.side = "BUY"}}
    \cup {<<[price |-> "0.02", side |-> d, size |-> PyStr("3")],
            [price |-> "0.03", side |-> d, size |-> PyStr("1")],
            [price |-> "0.02", side |-> d, size |-> PyStr("2")]>> : d \in PSideNames}

PBatchMessages ==
    {[event_type |-> "price_change", asset_id |-> "tokD", changes |-> b, timestamp |-> t] :
        b \in PBatches, t \in PTimestamps}
    \cup {[event_type |-> "book", asset_id |-> "tokD", bids |-> PSnapTwo, asks |-> PSnapOne,
            timestamp |-> t] : t \in PTimestamps}

-----------------------------------------------------------------------------
(* Python helpers *)

Nth(arr, i) == arr[i + 1]

Last(arr) == arr[Len(arr)]

\* list.pop(idx)
PopAt(arr, idx) == [i \in 1..(Len(arr) - 1) |-> IF i <= idx THEN arr[i] ELSE arr[i + 1]]

\* list.insert(idx, x)
InsertAt(arr, idx, x) ==
    [i \in 1..(Len(arr) + 1) |->
        IF i <= idx THEN arr[i] ELSE IF i = idx + 1 THEN x ELSE arr[i - 1]]

\* arr[idx] = x
SetAt(arr, idx, x) == [arr EXCEPT ![idx + 1] = x]

\* truth value of an optional number: None and 0 are falsy
Truthy(o) == o # None /\ o[1] # 0

-----------------------------------------------------------------------------
(* Kalshi replica *)

RECURSIVE KFindLoop(_, _, _, _)
KFindLoop(arr, price, l, r) ==
    IF l <= r
    THEN LET mid == (l + r) \div 2
         IN  IF Nth(arr, mid)[1] = price THEN mid
             ELSE IF Nth(arr, mid)[1] < price THEN KFindLoop(arr, price, mid + 1, r)
             ELSE KFindLoop(arr, price, l, mid - 1)
    ELSE l

\* find_index with the search window one element short (r = len(arr) - 2)
KFindIndexShort(arr, price) == KFindLoop(arr, price, 0, Len(arr) - 2)

\* KalshiWebSocketClient.find_index on the list arr = orderbook[ticker][side]
KFindIndex(arr, price) == KFindLoop(arr, price, 0, Len(arr) - 1)

\* The list mutation of update_orderbook_from_delta once idx is known.
KApplyLevel(arr, price, delta) ==
    LET idx == KFindIndex(arr, price)
    IN  IF idx = Len(arr) THEN Append(arr, <<price, delta>>)
        ELSE LET level == Nth(arr, idx)
             IN  IF level[1] = price
                 THEN LET new_quantity == level[2] + delta
                      IN  IF new_quantity <= 0 THEN PopAt(arr, idx)
                          ELSE SetAt(arr, idx, <<price, new_quantity>>)
                 ELSE IF delta > 0 THEN InsertAt(arr, idx, <<price, delta>>)
                 ELSE arr

\* update_orderbook_from_delta raises KeyError when the ticker has no book.
KDeltaRaises(ob, m) == m.market_ticker \notin DOMAIN ob

KUpdateFromDelta(ob, m) ==
    [ob EXCEPT ![m.market_ticker][m.side] = KApplyLevel(@, m.price, m.delta)]

\* a snapshot handler that extends the stored lists instead of replacing them
KUpdateFromSnapshotExtend(ob, m) ==
    [t \in DOMAIN ob \cup {m.market_ticker} |->
        IF t # m.market_ticker THEN ob[t]
        ELSE IF t \in DOMAIN ob
             THEN [ob[t] EXCEPT !.yes = @ \o m.yes, !.no = @ \o m.no]
        ELSE m]

\* update_orderbook_from_snapshot: the message replaces the instrument's book.
KUpdateFromSnapshot(ob, m) ==
    [t \in DOMAIN ob \cup {m.market_ticker} |->
        IF t = m.market_ticker THEN m ELSE ob[t]]

\* get_best_offers for one instrument
KBestOfBook(data) ==
    LET best_bid == IF data.yes # << >> THEN <<Last(data.yes)[1]>> ELSE None
        best_ask == IF data.no # << >> THEN <<100 - Last(data.no)[1]>> ELSE None
    IN  [best_bid |-> IF Truthy(best_bid) THEN <<best_bid[1], Last(data.yes)[2]>> ELSE None,
         best_ask |-> IF Truthy(best_ask) THEN <<best_ask[1], Last(data.no)[2]>> ELSE None,
         spread   |-> IF Truthy(best_bid) /\ Truthy(best_ask)
                      THEN <<best_ask[1] - best_bid[1]>> ELSE None]

KGetBestOffers(ob) == [t \in DOMAIN ob |-> KBestOfBook(ob[t])]

-----------------------------------------------------------------------------
(* Reference ledger semantics (spec section 4.1, applyDelta), kept as history *)

RefApplyLevel(arr, price, delta) ==
    IF \E i \in 1..Len(arr) : arr[i][1] = price
    THEN LET i == CHOOSE j \in 1..Len(arr) : arr[j][1] = price
         IN  IF arr[i][2] + delta <= 0 THEN PopAt(arr, i - 1)
             ELSE SetAt(arr, i - 1, <<price, arr[i][2] + delta>>)
    ELSE IF delta > 0
         THEN InsertAt(arr, Cardinality({j \in 1..Len(arr) : arr[j][1] < price}),
                       <<price, delta>>)
         ELSE arr

\* json_message["type"] == t, for a message that decoded and has the key
KIsType(m, t) == "type" \in DOMAIN m /\ m.type = t

RefStep(ref, m) ==
    IF KIsType(m, "orderbook_snapshot") THEN KUpdateFromSnapshot(ref, m.msg)
    ELSE IF KIsType(m, "orderbook_delta") /\ m.msg.market_ticker \in DOMAIN ref
         THEN [ref EXCEPT ![m.msg.market_ticker][m.msg.side] =
                              RefApplyLevel(@, m.msg.price, m.msg.delta)]
         ELSE ref

-----------------------------------------------------------------------------
(* The queue of main (poly_kalshi_arb.py): asyncio.Queue(), unbounded *)

\* the source names the two callbacks of main put on the queue
Sources == {"kalshi", "polymarket"}

\* a queue handing out the newest event first
QueuePutNowaitFront(source_name, payload) ==
    /\ queue' = <<<<source_name, payload, qput[source_name] + 1>>>> \o queue
    /\ qput' = [qput EXCEPT ![source_name] = @ + 1]
    /\ qunfinished' = qunfinished + 1
    /\ UNCHANGED qgot

\* callback=lambda data: queue.put_nowait((source_name, data)): the queue has
\* no maxsize, so put_nowait never raises QueueFull; the event goes to the back
QueuePutNowait(source_name, payload) ==
    /\ queue' = Append(queue, <<source_name, payload, qput[source_name] + 1>>)
    /\ qput' = [qput EXCEPT ![source_name] = @ + 1]
    /\ qunfinished' = qunfinished + 1
    /\ UNCHANGED qgot

-----------------------------------------------------------------------------
(* Kalshi stream adapter *)

\* on_message raises: json.loads on invalid text, json_message["type"] on a
\* message without that key, self.orderbook[ticker] on an unknown ticker.
KOnMessageRaises(ob, m) ==
    \/ "type" \notin DOMAIN m
    \/ KIsType(m, "orderbook_delta") /\ KDeltaRaises(ob, m.msg)

\* The replica after the dispatch of on_message (lines 163-166).
KDispatch(ob, m) ==
    IF KIsType(m, "orderbook_snapshot") THEN KUpdateFromSnapshot(ob, m.msg)
    ELSE IF KIsType(m, "orderbook_delta") THEN KUpdateFromDelta(ob, m.msg)
    ELSE ob

\* The Venue Event handed to the callback (the wall-clock timestamp is left out).
KEvent(best) == [market |-> "Kalshi", best_offers |-> best]

\* The callback runs when the summary differs from the stored one.
KPublishes(best, stored) == <<best>> # stored

\* The task running connect(tickers) is created.
KStart ==
    /\ kstate = "none"
    /\ kstate' = "connecting"
    /\ UNCHANGED <<korderbook, kbest, kout, kcount, klast, krepeat, kref>>
    /\ UNCHANGED <<pvars, qvars, mvars, avars, tvars>>

\* websockets.connect succeeds: connect() goes on to on_open.
KConnect ==
    /\ kstate = "connecting"
    /\ kstate' = "open"
    /\ UNCHANGED <<korderbook, kbest, kout, kcount, klast, krepeat, kref>>
    /\ UNCHANGED <<pvars, qvars, mvars, avars, tvars>>

\* websockets.connect raises: the exception leaves connect().
KConnectFail ==
    /\ kstate = "connecting"
    /\ kstate' = "raised"
    /\ kout' = "connect_error"
    /\ UNCHANGED <<korderbook, kbest, kcount, klast, krepeat, kref>>
    /\ UNCHANGED <<pvars, qvars, mvars, avars, tvars>>

\* on_open / subscribe_to_tickers: the subscription is sent, handler() starts.
KOnOpen ==
    /\ kstate = "open"
    /\ kstate' = "streaming"
    /\ UNCHANGED <<korderbook, kbest, kout, kcount, klast, krepeat, kref>>
    /\ UNCHANGED <<pvars, qvars, mvars, avars, tvars>>

\* ws.send raises in subscribe_to_tickers (connection already closed): on_open
\* is awaited outside handler()'s try, so the exception leaves connect().
KOnOpenFail ==
    /\ kstate = "open"
    /\ kstate' = "raised"
    /\ kout' = "send_error"
    /\ UNCHANGED <<korderbook, kbest, kcount, klast, krepeat, kref>>
    /\ UNCHANGED <<pvars, qvars, mvars, avars, tvars>>

\* handler(): one iteration of "async for message in self.ws" with on_message.
\* An exception of on_message is caught by "except Exception", on_error prints
\* it, handler() and then connect() return.
KOnMessage(m) ==
    /\ kstate = "streaming"
    /\ kcount < MaxKMsgs
    /\ kcount' = kcount + 1
    /\ klast' = <<m>>
    /\ krepeat' = (klast = <<m>>)
    /\ kref' = RefStep(kref, m)
    /\ IF KOnMessageRaises(korderbook, m)
       THEN /\ kstate' = "returned"
            /\ kout' = "on_error"
            /\ UNCHANGED <<korderbook, kbest, qvars>>
       ELSE LET ob == KDispatch(korderbook, m)
                best == KGetBestOffers(ob)
            IN  /\ korderbook' = ob
                /\ IF KPublishes(best, kbest)
                   THEN /\ kbest' = <<best>>
                        /\ QueuePutNowait("kalshi", KEvent(best))
                   ELSE UNCHANGED <<kbest, qvars>>
                /\ UNCHANGED <<kstate, kout>>
    /\ UNCHANGED <<pvars, mvars, avars, tvars>>

\* The connection drops: the iteration raises ConnectionClosed, on_close
\* prints it, handler() and then connect() return.
KConnectionClosed ==
    /\ kstate = "streaming"
    /\ kstate' = "returned"
    /\ kout' = "on_close"
    /\ UNCHANGED <<korderbook, kbest, kcount, klast, krepeat, kref>>
    /\ UNCHANGED <<pvars, qvars, mvars, avars, tvars>>

\* The connection is closed normally: the iteration ends, handler() and then
\* connect() return.
KStreamEnd ==
    /\ kstate = "streaming"
    /\ kstate' = "returned"
    /\ kout' = "end"
    /\ UNCHANGED <<korderbook, kbest, kcount, klast, krepeat, kref>>
    /\ UNCHANGED <<pvars, qvars, mvars, avars, tvars>>

KInit ==
    /\ korderbook = << >>
    /\ kbest = None
    /\ kstate = "none"
    /\ kout = "none"
    /\ kcount = 0
    /\ klast = None
    /\ krepeat = FALSE
    /\ kref = << >>

-----------------------------------------------------------------------------
(* Polymarket replica *)

RECURSIVE PFindLoop(_, _, _, _)
PFindLoop(arr, price, l, r) ==
    IF l <= r
    THEN LET mid == (l + r) \div 2
         IN  IF Decimal(Nth(arr, mid).price) = Decimal(price) THEN mid
             ELSE IF Decimal(Nth(arr, mid).price) < Decimal(price)
                  THEN PFindLoop(arr, price, mid + 1, r)
             ELSE PFindLoop(arr, price, l, mid - 1)
    ELSE l

\* AsyncMarketDataClient.find_index on the list arr = orderbook[asset_id][side]
PFindIndex(arr, price) == PFindLoop(arr, price, 0, Len(arr) - 1)

\* update_orderbook_levels that leaves a level it finds as it is
PApplyLevelKeep(arr, price, size) ==
    LET index == PFindIndex(arr, price)
    IN  IF index = Len(arr) THEN Append(arr, [price |-> price, size |-> size])
        ELSE IF Nth(arr, index).price # price
             THEN InsertAt(arr, index, [price |-> price, size |-> size])
        ELSE arr

\* The list mutation of update_orderbook_levels once trade_side is known.
PApplyLevel(arr, price, size) ==
    LET index == PFindIndex(arr, price)
    IN  IF index = Len(arr) THEN Append(arr, [price |-> price, size |-> size])
        ELSE IF Nth(arr, index).price # price
             THEN InsertAt(arr, index, [price |-> price, size |-> size])
        ELSE IF PyEq(size, PyInt(0)) THEN PopAt(arr, index)
        ELSE SetAt(arr, index, [Nth(arr, index) EXCEPT !.size = size])

\* update_orderbook_levels on one instrument's book
PUpdateOrderbookLevels(book, price, side, size) ==
    IF side = "BUY"
    THEN [book EXCEPT !.bids = PApplyLevel(@, price, size)]
    ELSE [book EXCEPT !.asks = PApplyLevel(@, price, size)]

\* the loop over message["changes"], in message order
RECURSIVE PApplyChanges(_, _)
PApplyChanges(book, changes) ==
    IF changes = << >> THEN book
    ELSE PApplyChanges(
             PUpdateOrderbookLevels(book, Head(changes).price, Head(changes).side,
                                    Head(changes).size),
             Tail(changes))

\* asks[-1] / bids[-1] raise IndexError on an empty side
PSpreadRaises(book) == book.asks = << >> \/ book.bids = << >>

\* the assignments of spread and mid (mid in tenths of a cent)
PWithSpread(book) ==
    IF PSpreadRaises(book) THEN book
    ELSE [book EXCEPT
            !.spread = <<Decimal(Last(book.asks).price) - Decimal(Last(book.bids).price)>>,
            !.mid = <<(Decimal(Last(book.asks).price) + Decimal(Last(book.bids).price)) * 5>>]

\* update_orderbook: the state it leaves, also when it raises half way
PUpdateOrderbook(ob, m) ==
    [ob EXCEPT ![m.asset_id] =
        PWithSpread([@ EXCEPT !.bids = m.bids, !.asks = m.asks, !.timestamp = m.timestamp])]

\* update_orderbook_from_price_change: the state it leaves, also when it raises
PUpdateFromPriceChange(ob, m) ==
    [ob EXCEPT ![m.asset_id] =
        PWithSpread([PApplyChanges(@, m.changes) EXCEPT !.timestamp = m.timestamp])]

\* get_best_bidasks: only instruments with both sides non-empty are reported
PGetBestBidAsks(ob) ==
    LET shown == {a \in DOMAIN ob : ob[a].bids # << >> /\ ob[a].asks # << >>}
        asset(o) == CHOOSE a \in shown : ob[a].outcome = o
    IN  [o \in {ob[a].outcome : a \in shown} |->
            LET book == ob[asset(o)]
                best_bid == Last(book.bids)
                best_ask == Last(book.asks)
            IN  [token_id  |-> asset(o),
                 best_bid  |-> <<best_bid.price, best_bid.size>>,
                 best_ask  |-> <<best_ask.price, best_ask.size>>,
                 spread    |-> Decimal(best_ask.price) - Decimal(best_bid.price),
                 timestamp |-> book.timestamp]]

\* len(str(tick_size).split(".")[1])
PDecimalPlaces(tick_size) == IF tick_size = "0.001" THEN 3 ELSE 2

-----------------------------------------------------------------------------
(* Polymarket stream adapter *)

\* message["event_type"] == t, for a message that decoded and has the key
PIsEvent(m, t) == "event_type" \in DOMAIN m /\ m.event_type = t

\* The replica after parse_message, also when parse_message raises.
PDispatch(ob, m) ==
    IF PIsEvent(m, "book") THEN PUpdateOrderbook(ob, m)
    ELSE IF PIsEvent(m, "price_change") THEN PUpdateFromPriceChange(ob, m)
    ELSE ob

\* json.loads / parse_message raise: invalid text, a message without
\* "event_type", an empty side when spread and mid are recomputed.
PParseRaises(ob, m) ==
    \/ "event_type" \notin DOMAIN m
    \/ /\ PIsEvent(m, "book") \/ PIsEvent(m, "price_change")
       /\ PSpreadRaises(PDispatch(ob, m)[m.asset_id])

\* The Venue Event handed to the callback.
PEvent(best_bids) == [market |-> "Polymarket", best_offers |-> best_bids]

\* the finally clause of websocket_handler
PFinally ==
    /\ prunning' = FALSE
    /\ pwebsocket' = FALSE
    /\ pstate' = "done"

\* connect(): not running, so the handler task is created.
PConnect ==
    /\ pstate = "none"
    /\ ~prunning
    /\ pstate' = "created"
    /\ ptask' = ptask + 1
    /\ UNCHANGED pextra
    /\ UNCHANGED <<porderbook, prunning, pwebsocket, pout, pcount, plast, prepeat, ptick, prec>>
    /\ UNCHANGED <<kvars, qvars, mvars, avars>>

\* connect() is called again while the handler task of the earlier call has
\* not terminated: rejected when _running is set, else a further handler task
\* is created and self._task refers to it.  (The further task is not followed.)
PConnectAgain ==
    /\ pstate \in {"created", "open", "streaming"}
    /\ pextra < MaxExtraConnects
    /\ IF prunning
       THEN UNCHANGED tvars
       ELSE /\ ptask' = ptask + 1
            /\ pextra' = pextra + 1
    /\ UNCHANGED <<pvars, kvars, qvars, mvars, avars>>

\* websocket_handler: websockets.connect succeeds.
PHandlerOpen ==
    /\ pstate = "created"
    /\ pstate' = "open"
    /\ pwebsocket' = TRUE
    /\ prunning' = TRUE
    /\ UNCHANGED <<porderbook, pout, pcount, plast, prepeat, ptick, prec>>
    /\ UNCHANGED <<kvars, qvars, mvars, avars, tvars>>

\* websocket_handler: websockets.connect raises; the task ends with the exception.
PHandlerOpenFail ==
    /\ pstate = "created"
    /\ pstate' = "failed"
    /\ pout' = "connect_error"
    /\ UNCHANGED <<porderbook, prunning, pwebsocket, pcount, plast, prepeat, ptick, prec>>
    /\ UNCHANGED <<kvars, qvars, mvars, avars, tvars>>

\* the state get_markets leaves: tick size, decimal precision, one book per token
PGetMarkets(bids, asks) ==
    /\ ptick' = 2
    /\ prec' = 2 + 2
    /\ porderbook' = [a \in PAssets |->
            [outcome |-> POutcome(a), bids |-> bids, asks |-> asks,
             timestamp |-> "t0", spread |-> None, mid |-> None]]

\* on_connect: get_markets and the subscription succeed; the read loop starts.
POnConnect ==
    /\ pstate = "open"
    /\ \E b \in PRestBooks : PGetMarkets(b[1], b[2])
    /\ pstate' = "streaming"
    /\ UNCHANGED <<prunning, pwebsocket, pout, pcount, plast, prepeat>>
    /\ UNCHANGED <<kvars, qvars, mvars, avars, tvars>>

\* on_connect raises (the REST call in get_markets, or websocket.send after
\* it): it is awaited outside the try, so the task ends with the exception and
\* the finally clause does not run.
POnConnectFail ==
    /\ pstate = "open"
    /\ \/ UNCHANGED <<porderbook, ptick, prec>>
       \/ \E b \in PRestBooks : PGetMarkets(b[1], b[2])
    /\ pstate' = "failed"
    /\ pout' = "on_connect_error"
    /\ UNCHANGED <<prunning, pwebsocket, pcount, plast, prepeat>>
    /\ UNCHANGED <<kvars, qvars, mvars, avars, tvars>>

\* One iteration of the read loop: recv, json.loads, parse_message,
\* get_best_bidasks, callback.  An exception is caught by "except Exception"
\* outside the loop, so the loop ends and the finally clause runs.
PRecv(m) ==
    /\ pstate = "streaming"
    /\ prunning
    /\ pcount < MaxPMsgs
    /\ pcount' = pcount + 1
    /\ plast' = <<m>>
    /\ prepeat' = (plast = <<m>>)
    /\ porderbook' = PDispatch(porderbook, m)
    /\ IF PIsEvent(m, "tick_size_change")
       THEN /\ ptick' = PDecimalPlaces(m.new_tick_size)
            /\ prec' = PDecimalPlaces(m.new_tick_size) + 2
       ELSE UNCHANGED <<ptick, prec>>
    /\ IF PParseRaises(porderbook, m)
       THEN /\ pout' = "error"
            /\ PFinally
            /\ UNCHANGED qvars
       ELSE /\ QueuePutNowait("polymarket",
                               PEvent(PGetBestBidAsks(PDispatch(porderbook, m))))
            /\ UNCHANGED <<pstate, prunning, pwebsocket, pout>>
    /\ UNCHANGED <<kvars, mvars, avars, tvars>>

\* The connection drops: recv raises ConnectionClosed, the loop ends and the
\* finally clause runs.
PConnectionClosed ==
    /\ pstate = "streaming"
    /\ pout' = "closed"
    /\ PFinally
    /\ UNCHANGED <<porderbook, pcount, plast, prepeat, ptick, prec>>
    /\ UNCHANGED <<kvars, qvars, mvars, avars, tvars>>

PInit ==
    /\ porderbook = << >>
    /\ pstate = "none"
    /\ prunning = FALSE
    /\ pwebsocket = FALSE
    /\ pout = "none"
    /\ pcount = 0
    /\ plast = None
    /\ prepeat = FALSE
    /\ ptick = 2
    /\ prec = 8
    /\ ptask = 0
    /\ pextra = 0

-----------------------------------------------------------------------------
(* Decimal arithmetic under the process-wide context (poly_kalshi_arb.py)   *)
(*                                                                          *)
(* Money is counted in cents.  Every arithmetic operation on Decimals       *)
(* rounds its exact result to getcontext().prec significant digits, with    *)
(* the default rounding ROUND_HALF_EVEN; constructing a Decimal does not.   *)

Pow10(k) ==
    CASE k = 0 -> 1
      [] k = 1 -> 10
      [] k = 2 -> 100
      [] k = 3 -> 1000
      [] k = 4 -> 10000
      [] k = 5 -> 100000
      [] k = 6 -> 1000000
      [] k = 7 -> 10000000
      [] k = 8 -> 100000000
      [] k = 9 -> 1000000000

\* number of decimal digits of the coefficient n >= 0
NumDigits(n) ==
    IF n < 10 THEN 1
    ELSE IF n < 100 THEN 2
    ELSE IF n < 1000 THEN 3
    ELSE IF n < 10000 THEN 4
    ELSE IF n < 100000 THEN 5
    ELSE IF n < 1000000 THEN 6
    ELSE IF n < 10000000 THEN 7
    ELSE IF n < 100000000 THEN 8
    ELSE IF n < 1000000000 THEN 9
    ELSE 10

\* n >= 0 rounded to p significant digits, ties to the even neighbour
RoundHalfEven(n, p) ==
    IF NumDigits(n) <= p THEN n
    ELSE LET unit == Pow10(NumDigits(n) - p)
             q    == n \div unit
             r    == n % unit
         IN  IF 2 * r > unit \/ (2 * r = unit /\ q % 2 = 1)
             THEN (q + 1) * unit
             ELSE q * unit

\* the result of one arithmetic operation whose exact value is n
Round(n, p) == IF n < 0 THEN 0 - RoundHalfEven(0 - n, p) ELSE RoundHalfEven(n, p)

-----------------------------------------------------------------------------
(* Arbitrage engine (poly_kalshi_arb.py) *)

\* fee_rate=0.07.  Decimal(0.07) is the binary double, larger than 7/100 by
\* less than 1e-17; the first product fee_rate * shares is rounded to the
\* context precision, which removes the excess.
FeeRate == 7

\* calculate_kalshi_fees with quantize rounding to the nearest cent
CalculateKalshiFeesNearest(contract_price, shares, p) ==
    LET t1 == Round(FeeRate * shares, p)
        t2 == Round(t1 * contract_price, p)
        t3 == Round(t2 * Round(100 - contract_price, p), p)
    IN  (t3 + 5000) \div 10000

\* calculate_kalshi_fees: contract_price in cents, shares a whole number.
\* The three products are exact in 1e-2, 1e-4 and 1e-6 dollars before each
\* is rounded; quantize(Decimal('0.01'), ROUND_UP) gives whole cents.
CalculateKalshiFees(contract_price, shares, p) ==
    LET t1 == Round(FeeRate * shares, p)
        t2 == Round(t1 * contract_price, p)
        t3 == Round(t2 * Round(100 - contract_price, p), p)
    IN  (t3 + 9999) \div 10000

\* the opportunity test of check_arbitrage with ">=" for ">"
BothNonNegative(pnl_if_lose, pnl_if_win) == (pnl_if_lose >= 0) /\ (pnl_if_win >= 0)

\* (pnl_if_lose_market1 > 0) and (pnl_if_win_market1 > 0)
BothPositive(pnl_if_lose, pnl_if_win) == (pnl_if_lose > 0) /\ (pnl_if_win > 0)

\* check_arbitrage: prices in cents, the results in cents
CheckArbitrage(market1_price, market2_inverse_price, shares, p) ==
    LET market2_fee == CalculateKalshiFees(market2_inverse_price, shares, p)
        profit_if_win_market1 == Round(Round(100 - market1_price, p) * shares, p)
        profit_if_win_market2 ==
            Round(Round(Round(100 - market2_inverse_price, p) * shares, p) - market2_fee, p)
        cost_market1 == Round(market1_price * shares, p)
        cost_market2 == Round(Round(market2_inverse_price * shares, p) + market2_fee, p)
        pnl_if_win_market1  == Round(profit_if_win_market1 - cost_market2, p)
        pnl_if_lose_market1 == Round(profit_if_win_market2 - cost_market1, p)
    IN  [is_arbitrage |-> BothPositive(pnl_if_lose_market1, pnl_if_win_market1),
         pnl_if_win   |-> pnl_if_win_market1,
         pnl_if_lose  |-> pnl_if_lose_market1]

\* the two strategy texts, without the numbers the f-strings put in them
StrategyYes1No2 == "bet yes on market 1 and no on market 2"
StrategyNo1Yes2 == "bet no on market 1 and yes on market 2"

\* check_markets_arbitrage with ">=" for ">" in the opportunity test
IsArbitrageNonNegative(profit1, profit2) == profit1 >= 0 \/ profit2 >= 0

\* is_arbitrage = profit1 > 0 or profit2 > 0
IsArbitrage(profit1, profit2) == profit1 > 0 \/ profit2 > 0

\* the strategy choice with the comparison reversed
SelectsFirstReversed(profit1, profit2) == profit1 < profit2

\* if profit1 > profit2: the first strategy, else the second
SelectsFirst(profit1, profit2) == profit1 > profit2

\* the result dict of check_markets_arbitrage for the two profits
MarketsResult(profit1, profit2) ==
    [is_arbitrage     |-> IsArbitrage(profit1, profit2),
     strategy         |-> IF ~IsArbitrage(profit1, profit2) THEN None
                          ELSE IF SelectsFirst(profit1, profit2)
                               THEN <<StrategyYes1No2>> ELSE <<StrategyNo1Yes2>>,
     market1_action   |-> IF ~IsArbitrage(profit1, profit2) THEN None
                          ELSE IF SelectsFirst(profit1, profit2) THEN <<0>> ELSE <<1>>,
     market2_action   |-> IF ~IsArbitrage(profit1, profit2) THEN None
                          ELSE IF SelectsFirst(profit1, profit2) THEN <<1>> ELSE <<0>>,
     profit_per_share |-> IF ~IsArbitrage(profit1, profit2) THEN None
                          ELSE IF SelectsFirst(profit1, profit2)
                               THEN <<profit1>> ELSE <<profit2>>,
     market1_pnl      |-> profit1,
     market2_pnl      |-> profit2]

\* an engine pairing each side of market 1 with the same side of market 2
CheckMarketsArbitrageSameSide(m1_yes, m1_no, m2_yes, m2_no, shares, p) ==
    MarketsResult(CheckArbitrage(m1_yes, m2_yes, shares, p).pnl_if_win,
                  CheckArbitrage(m1_no, m2_no, shares, p).pnl_if_win)

\* check_markets_arbitrage: profit1 = pm1["pnl_if_win"] of
\* check_arbitrage(m1_yes, m2_no, shares), profit2 = pm2["pnl_if_win"] of
\* check_arbitrage(m1_no, m2_yes, shares)
CheckMarketsArbitrage(m1_yes, m1_no, m2_yes, m2_no, shares, p) ==
    MarketsResult(CheckArbitrage(m1_yes, m2_no, shares, p).pnl_if_win,
                  CheckArbitrage(m1_no, m2_yes, shares, p).pnl_if_win)

\* Inputs of a direct call: prices on the cent grid in [0, 1], share counts.
EnginePrices == {0, 19, 22, 47, 50, 81, 86, 100}
EngineShares == {1, 13, 100}

\* what a call check_markets_arbitrage(m1_yes, m1_no, m2_yes, m2_no, shares)
\* returns under precision p, with the fees calculate_kalshi_fees returned for
\* the two venue-2 prices and the two check_arbitrage results
EngineRecord(m1_yes, m1_no, m2_yes, m2_no, shares, p) ==
    [m1_yes |-> m1_yes, m1_no |-> m1_no, m2_yes |-> m2_yes, m2_no |-> m2_no,
     shares |-> shares, prec |-> p,
     fee_no  |-> CalculateKalshiFees(m2_no, shares, p),
     fee_yes |-> CalculateKalshiFees(m2_yes, shares, p),
     pm1 |-> CheckArbitrage(m1_yes, m2_no, shares, p),
     pm2 |-> CheckArbitrage(m1_no, m2_yes, shares, p),
     result |-> CheckMarketsArbitrage(m1_yes, m1_no, m2_yes, m2_no, shares, p)]

\* A direct call of the engine under the decimal context of the moment.
EngineCall ==
    /\ eng = None
    /\ pstate \in {"none", "streaming"}
    /\ \E m1_yes \in EnginePrices, m1_no \in EnginePrices, m2_yes \in EnginePrices,
          m2_no \in EnginePrices, shares \in EngineShares :
            eng' = <<EngineRecord(m1_yes, m1_no, m2_yes, m2_no, shares, prec)>>
    /\ UNCHANGED <<kvars, pvars, qvars, mvars, cons, chist, tvars>>

-----------------------------------------------------------------------------
(* message_consumer (poly_kalshi_arb.py) *)

\* markets: the two Polymarket outcomes, then the two Kalshi tickers
\* (KXMLBGAME-25MAY21AZLAD-LAD and -AZ, named as in KTickers)
Markets == <<"Dodgers", "Diamondbacks", "LAD", "AZ">>

\* the local variables before the first iteration
ConsumerLocals ==
    [polymarket_offers |-> << >>,
     kalshi_offers     |-> << >>,
     prev_price_levels |-> << >>,
     prev_levels       |-> << >>,
     total_profit      |-> 0,
     total_cost        |-> 0,
     arbitrage_regime  |-> FALSE,
     arbitrage_start   |-> None,
     arbitrage_times   |-> << >>]

\* "if not all(m in polymarket_offers ...) or not all(m in kalshi_offers ...)"
MissingMarketData(c) ==
    \/ ~({Markets[1], Markets[2]} \subseteq DOMAIN c.polymarket_offers)
    \/ ~({Markets[3], Markets[4]} \subseteq DOMAIN c.kalshi_offers)

\* [p1_data, p2_data, k1_data, k2_data]
BestAskData(c) ==
    <<c.polymarket_offers[Markets[1]].best_ask, c.polymarket_offers[Markets[2]].best_ask,
      c.kalshi_offers[Markets[3]].best_ask, c.kalshi_offers[Markets[4]].best_ask>>

\* "if not all([p1_data, p2_data, k1_data, k2_data])": None and () are falsy
MissingBestAsk(data) == \E i \in 1..4 : data[i] = None

\* [p1_data[0], p2_data[0], k1_data[0], k2_data[0]]
PriceLevels(data) == <<data[1][1], data[2][1], data[3][1], data[4][1]>>

\* check_markets_arbitrage(p1, p2, k1, k2, shares=Decimal("1.0")) with
\* p = Decimal(p_data[0]) and k = Decimal(k_data[0]) / Decimal("100")
Evaluate(data, p) ==
    CheckMarketsArbitrage(Decimal(data[1][1]), Decimal(data[2][1]),
                          Round(data[3][1], p), Round(data[4][1], p), 1, p)

Min(a, b) == IF a <= b THEN a ELSE b

\* the trade of an accepted opportunity: the two legs, the size and the
\* amounts added to the totals (cents)
Trade(c, result, p) ==
    LET pm_outcome_name  == Markets[result.market1_action[1] + 1]
        pm_order_details == c.polymarket_offers[pm_outcome_name]
        pm_price_to_buy  == Decimal(pm_order_details.best_ask[1])
        pm_available_size == DecimalSize(pm_order_details.best_ask[2].v)
        kalshi_ticker_to_buy == Markets[result.market2_action[1] + 2 + 1]
        kalshi_order_details == c.kalshi_offers[kalshi_ticker_to_buy]
        kalshi_price_to_buy_cents == kalshi_order_details.best_ask[1]
        kalshi_available_size == kalshi_order_details.best_ask[2]
        max_size_without_slippage == Min(pm_available_size, kalshi_available_size)
        trade_size == max_size_without_slippage
        cost_pm == Round(pm_price_to_buy * trade_size, p)
        cost_kalshi == Round(Round(kalshi_price_to_buy_cents, p) * trade_size, p)
    IN  [pm_outcome_name |-> pm_outcome_name,
         pm_token_id |-> pm_order_details.token_id,
         kalshi_ticker_to_buy |-> kalshi_ticker_to_buy,
         pm_ask |-> pm_order_details.best_ask,
         kalshi_ask |-> kalshi_order_details.best_ask,
         trade_size |-> trade_size,
         total_potential_cost_for_arb |-> Round(cost_pm + cost_kalshi, p),
         potential_profit_for_arb |-> Round(result.profit_per_share[1] * trade_size, p)]

\* an update that forgets the offers of the other venue
UpdateOffersResetOther(c, source_name, payload) ==
    [c EXCEPT !.polymarket_offers = IF source_name = "polymarket"
                                    THEN payload.best_offers ELSE << >>,
              !.kalshi_offers = IF source_name = "kalshi"
                                THEN payload.best_offers ELSE << >>]

\* polymarket_offers / kalshi_offers = payload['best_offers'] of the
\* event's source
UpdateOffers(c, source_name, payload) ==
    [c EXCEPT !.polymarket_offers = IF source_name = "polymarket"
                                    THEN payload.best_offers ELSE @,
              !.kalshi_offers = IF source_name = "kalshi"
                                THEN payload.best_offers ELSE @]

\* an iteration that took "continue" before the evaluation
Skipped(path, locals) ==
    [path |-> path, locals |-> locals, data |-> None, result |-> None, trade |-> None]

\* an iteration that evaluated the best asks data with the result dict result
Done(path, locals, data, result, trade) ==
    [path |-> path, locals |-> locals, data |-> <<data>>, result |-> <<result>>,
     trade |-> trade]

\* the regime start without the start time stored
RegimeStartedUntimed(c, now) ==
    IF c.arbitrage_regime THEN c
    ELSE [c EXCEPT !.arbitrage_regime = TRUE]

\* "if not arbitrage_regime: arbitrage_regime = True; arbitrage_start = time()"
RegimeStarted(c, now) ==
    IF c.arbitrage_regime THEN c
    ELSE [c EXCEPT !.arbitrage_regime = TRUE, !.arbitrage_start = <<now>>]

\* the regime end without the duration appended
RegimeEndedUnrecorded(c, now) ==
    IF c.arbitrage_regime
    THEN [c EXCEPT !.arbitrage_regime = FALSE, !.arbitrage_start = None]
    ELSE c

\* "if arbitrage_regime: arbitrage_regime = False; arbitrage_times.append(...)"
RegimeEnded(c, now) ==
    IF c.arbitrage_regime
    THEN [c EXCEPT !.arbitrage_regime = FALSE,
                   !.arbitrage_times = Append(@, now - c.arbitrage_start[1]),
                   !.arbitrage_start = None]
    ELSE c

\* the repeated-signal test never recognising a repetition
SamePriceLevelsNever(current_price_levels, prev_price_levels) == FALSE

\* current_price_levels == prev_price_levels, prev_price_levels not empty
SamePriceLevels(current_price_levels, prev_price_levels) ==
    prev_price_levels # << >> /\ current_price_levels = prev_price_levels

\* the branch "if arbitrage_result["is_arbitrage"]" after the regime start: the
\* skips, or the trade t added to the totals
Opportunity(c, data, result, t, p) ==
    IF SamePriceLevels(PriceLevels(data), c.prev_price_levels)
    THEN Done("no_price_change", c, data, result, None)
    ELSE IF t.pm_token_id = ""
    THEN Done("missing_token_id", c, data, result, None)
    ELSE IF t.trade_size <= 0
    THEN Done("too_small", c, data, result, None)
    ELSE Done("submitted",
              [c EXCEPT !.total_cost = Round(@ + t.total_potential_cost_for_arb, p),
                        !.total_profit = Round(@ + t.potential_profit_for_arb, p),
                        !.prev_price_levels = PriceLevels(data)],
              data, result, <<t>>)

\* the loop body from the evaluation on, prev_levels already assigned
Evaluated(c, data, result, p, now) ==
    IF result.is_arbitrage
    THEN Opportunity(RegimeStarted(c, now), data, result,
                     Trade(RegimeStarted(c, now), result, p), p)
    ELSE Done("no_opportunity", RegimeEnded(c, now), data, result, None)

\* the loop body after the offers of the event's source were replaced
ConsumerBody(c, p, now) ==
    IF MissingMarketData(c) THEN Skipped("missing_market_data", c)
    ELSE IF MissingBestAsk(BestAskData(c)) THEN Skipped("missing_best_ask", c)
    ELSE Evaluated([c EXCEPT !.prev_levels = BestAskData(c)], BestAskData(c),
                   Evaluate(BestAskData(c), p), p, now)

\* One iteration of the loop body for the event (source_name, payload), under
\* decimal precision p at loop time now: the path taken, the new locals and
\* what was evaluated.
ConsumerIteration(c, source_name, payload, p, now) ==
    ConsumerBody(UpdateOffers(c, source_name, payload), p, now)

\* the history before the first iteration: no event dequeued, nothing evaluated
NoHistory == [n |-> 0, path |-> "none", before |-> ConsumerLocals, data |-> None,
              result |-> None, trade |-> None, prec |-> 0, last_eval |-> None,
              sum_profit |-> 0, sum_cost |-> 0, regime_ends |-> 0]

-----------------------------------------------------------------------------
(* Specifications *)

MInit ==
    /\ queue = << >>
    /\ qput = [s \in Sources |-> 0]
    /\ qgot = [s \in Sources |-> 0]
    /\ qunfinished = 0
    /\ mstate = "init"
    /\ mcause = "none"
    /\ cstate = "none"
    /\ tstate = "none"
    /\ cons = ConsumerLocals
    /\ chist = NoHistory
    /\ eng = None

Init == KInit /\ PInit /\ MInit

\* The two adapters share no replica state: Spec explores each adapter running
\* alone, with the callback of main configured.
KStartAlone == pstate = "none" /\ KStart

PStartAlone == kstate = "none" /\ PConnect

Next ==
    \/ KStartAlone
    \/ KConnect
    \/ KConnectFail
    \/ KOnOpen
    \/ KOnOpenFail
    \/ \E m \in KMessages : KOnMessage(m)
    \/ KConnectionClosed
    \/ KStreamEnd
    \/ PStartAlone
    \/ PHandlerOpen
    \/ PHandlerOpenFail
    \/ POnConnect
    \/ POnConnectFail
    \/ \E m \in PMessages : PRecv(m)
    \/ PConnectionClosed

Spec == Init /\ [][Next]_vars

-----------------------------------------------------------------------------
(* main(): the tasks it creates, its gather and its cleanup *)

\* tasks = [...]: the Tk loop, polymarket_client.connect, kalshi_client.connect
\* and message_consumer are created; main awaits asyncio.gather(*tasks).
\* (main passes proxies= to AsyncMarketDataClient, a keyword the __init__ of
\* src/polymarket_api.py does not declare; the model starts after construction,
\* with both clients built and their callbacks set to queue.put_nowait.)
MainStart ==
    /\ mstate = "init"
    /\ mstate' = "gather"
    /\ tstate' = "running"
    /\ cstate' = "running"
    /\ kstate' = "connecting"
    /\ UNCHANGED <<korderbook, kbest, kout, kcount, klast, krepeat, kref>>
    /\ UNCHANGED <<pvars, qvars, mcause, avars, tvars>>

\* The task of polymarket_client.connect runs: it creates the handler task
\* (kept in self._task, not in main's tasks list) and returns.
MainPConnect == mstate = "gather" /\ PConnect

\* profit_per_share * trade_size and (Polymarket ask + Kalshi ask / 100) *
\* trade_size of the opportunity the iteration it accepted, by exact
\* arithmetic in cents; 0 when it accepted none
AcceptedProfit(it) ==
    IF it.path = "submitted"
    THEN it.result[1].profit_per_share[1] * it.trade[1].trade_size
    ELSE 0

AcceptedCost(it) ==
    IF it.path = "submitted"
    THEN (Decimal(it.trade[1].pm_ask[1]) + it.trade[1].kalshi_ask[1]) * it.trade[1].trade_size
    ELSE 0

\* 1 when the iteration took the regime flag from active to inactive, else 0
RegimeEnds(before, after) ==
    IF before.arbitrage_regime /\ ~after.arbitrage_regime THEN 1 ELSE 0

\* the path "no price change" leaving the loop body without queue.task_done()
TaskDoneCallsSkipUnacknowledged(path) ==
    CASE path = "missing_market_data" -> 1
      [] path = "missing_best_ask"    -> 1
      [] path = "no_price_change"     -> 0
      [] path = "missing_token_id"    -> 1
      [] path = "too_small"           -> 1
      [] path = "submitted"           -> 1
      [] path = "no_opportunity"      -> 1

\* the number of queue.task_done() calls on each path through the loop body
TaskDoneCalls(path) ==
    CASE path = "missing_market_data" -> 1    \* line 123
      [] path = "missing_best_ask"    -> 1    \* line 136
      [] path = "no_price_change"     -> 1    \* line 170
      [] path = "missing_token_id"    -> 1    \* line 180
      [] path = "too_small"           -> 1    \* line 200
      [] path = "submitted"           -> 1    \* line 262
      [] path = "no_opportunity"      -> 1    \* line 262

\* the locals, the history and the queue's count of unfinished tasks after
\* the iteration it
ConsumerDone(it) ==
    /\ cons' = it.locals
    /\ qunfinished' = qunfinished - TaskDoneCalls(it.path)
    /\ chist' = [n |-> chist.n + 1, path |-> it.path, before |-> cons,
                 data |-> it.data, result |-> it.result, trade |-> it.trade,
                 prec |-> prec,
                 last_eval |-> IF chist.data # None THEN chist.data ELSE chist.last_eval,
                 sum_profit |-> chist.sum_profit + AcceptedProfit(it),
                 sum_cost |-> chist.sum_cost + AcceptedCost(it),
                 regime_ends |-> chist.regime_ends + RegimeEnds(cons, it.locals)]

\* message_consumer: one iteration of "while True": an event is taken from
\* the queue and processed up to queue.task_done().  The loop time is counted
\* in iterations.  chist keeps what the iteration did; last_eval is the
\* best-ask data of the most recent iteration that reached the evaluation;
\* sum_profit and sum_cost are the exact sums over the accepted opportunities;
\* regime_ends counts the iterations that ended a regime.
ConsumerGet ==
    /\ cstate = "running"
    /\ queue # << >>
    /\ queue' = Tail(queue)
    /\ qgot' = [qgot EXCEPT ![Head(queue)[1]] = Head(queue)[3]]
    /\ UNCHANGED qput
    /\ ConsumerDone(ConsumerIteration(cons, Head(queue)[1], Head(queue)[2], prec,
                                      chist.n + 1))
    /\ UNCHANGED <<kvars, pvars, mvars, eng, tvars>>

\* run_tk_event_loop returns when the window is closed.
TkClosed ==
    /\ tstate = "running"
    /\ tstate' = "returned"
    /\ UNCHANGED <<kvars, pvars, qvars, mstate, mcause, cstate, avars, tvars>>

\* gather (return_exceptions not set) re-raises the first exception of a task
\* in main; "except KeyboardInterrupt" does not catch it.
MainGatherRaises ==
    /\ mstate = "gather"
    /\ kstate = "raised"
    /\ mstate' = "finally"
    /\ mcause' = "task_exception"
    /\ UNCHANGED <<kvars, pvars, qvars, cstate, tstate, avars, tvars>>

\* The user interrupts the program while main awaits gather.
MainInterrupt ==
    /\ mstate = "gather"
    /\ mstate' = "finally"
    /\ mcause' = "interrupt"
    /\ UNCHANGED <<kvars, pvars, qvars, cstate, tstate, avars, tvars>>

Cancelled(state, live) == IF state \in live THEN "cancelled" ELSE state

\* finally: every task of the list is cancelled and awaited.  The Polymarket
\* handler task is not in the list.
MainFinally ==
    /\ mstate = "finally"
    /\ mstate' = "returned"
    /\ tstate' = Cancelled(tstate, {"running"})
    /\ cstate' = Cancelled(cstate, {"running"})
    /\ kstate' = Cancelled(kstate, {"connecting", "open", "streaming"})
    /\ UNCHANGED <<korderbook, kbest, kout, kcount, klast, krepeat, kref>>
    /\ UNCHANGED <<pvars, qvars, mcause, avars, tvars>>

\* main has returned: asyncio.run cancels the tasks that are left.  A handler
\* cancelled inside its try block runs the finally clause.
AsyncioRunShutdown ==
    /\ mstate = "returned"
    /\ mstate' = "closed"
    /\ pstate' = Cancelled(pstate, {"created", "open", "streaming"})
    /\ IF pstate = "streaming"
       THEN prunning' = FALSE /\ pwebsocket' = FALSE
       ELSE UNCHANGED <<prunning, pwebsocket>>
    /\ UNCHANGED <<porderbook, pout, pcount, plast, prepeat, ptick, prec>>
    /\ UNCHANGED <<kvars, qvars, mcause, cstate, tstate, avars, tvars>>

\* Inbound messages explored under main.
KMainMessages ==
    {[type |-> "orderbook_snapshot",
      msg |-> [market_ticker |-> "LAD", yes |-> KSnapTwo, no |-> KSnapOne]],
     [type |-> "orderbook_delta",
      msg |-> [market_ticker |-> "LAD", side |-> "yes", price |-> 3, delta |-> 1]],
     [raw |-> "not json"]}

PMainMessages ==
    {[event_type |-> "book", asset_id |-> "tokD", bids |-> PSnapOne, asks |-> PSnapTwo,
      timestamp |-> "t1"],
     [raw |-> "not json"]}

NextMain ==
    \/ MainStart
    \/ MainPConnect
    \/ ConsumerGet
    \/ TkClosed
    \/ MainGatherRaises
    \/ MainInterrupt
    \/ MainFinally
    \/ AsyncioRunShutdown
    \/ KConnect
    \/ KConnectFail
    \/ KOnOpen
    \/ KOnOpenFail
    \/ \E m \in KMainMessages : KOnMessage(m)
    \/ KConnectionClosed
    \/ KStreamEnd
    \/ PHandlerOpen
    \/ PHandlerOpenFail
    \/ POnConnect
    \/ POnConnectFail
    \/ \E m \in PMainMessages : PRecv(m)
    \/ PConnectionClosed

SpecMain == Init /\ [][NextMain]_vars

-----------------------------------------------------------------------------
(* The two adapters feeding message_consumer under main, without failures *)

\* Inbound messages explored with the consumer: Kalshi snapshots that give
\* both tickers a best ask (LAD 97, AZ 50, 20000 contracts each) and a delta
\* that removes the AZ one; Polymarket books whose Dodgers best ask makes an
\* opportunity of 1 share ("0.02"), of 20000 shares ("0.40") or none ("0.60").
KConsumerMessages ==
    {[type |-> "orderbook_snapshot",
      msg |-> [market_ticker |-> "LAD", yes |-> << >>, no |-> << <<3, 20000>> >>]],
     [type |-> "orderbook_snapshot",
      msg |-> [market_ticker |-> "AZ", yes |-> << >>, no |-> << <<50, 20000>> >>]],
     [type |-> "orderbook_delta",
      msg |-> [market_ticker |-> "AZ", side |-> "no", price |-> 50, delta |-> 0 - 20000]]}

PConsumerMessages ==
    {[event_type |-> "book", asset_id |-> "tokD", bids |-> PSnapOne,
      asks |-> <<PLevel("0.60", "3")>>, timestamp |-> "t1"],
     [event_type |-> "book", asset_id |-> "tokD", bids |-> PSnapOne,
      asks |-> PSnapOne, timestamp |-> "t1"],
     [event_type |-> "book", asset_id |-> "tokD", bids |-> PSnapOne,
      asks |-> <<PLevel("0.40", "20000")>>, timestamp |-> "t1"]}

NextConsumer ==
    \/ MainStart
    \/ MainPConnect
    \/ KConnect
    \/ KOnOpen
    \/ \E m \in KConsumerMessages : KOnMessage(m)
    \/ PHandlerOpen
    \/ POnConnect
    \/ \E m \in PConsumerMessages : PRecv(m)
    \/ ConsumerGet

SpecConsumer == Init /\ [][NextConsumer]_vars

-----------------------------------------------------------------------------
(* The arbitrage engine called directly, in a process whose decimal context *)
(* is the one the Polymarket adapter leaves                                 *)

NextEngine ==
    \/ PStartAlone
    \/ PHandlerOpen
    \/ POnConnect
    \/ \E m \in PTickSizeChanges : PRecv(m)
    \/ EngineCall

SpecEngine == Init /\ [][NextEngine]_vars

-----------------------------------------------------------------------------
(* The Polymarket adapter alone, fed price_change messages with several     *)
(* changes each                                                             *)

NextBatch ==
    \/ PStartAlone
    \/ PHandlerOpen
    \/ POnConnect
    \/ \E m \in PBatchMessages : PRecv(m)

SpecBatch == Init /\ [][NextBatch]_vars

-----------------------------------------------------------------------------
(* The Polymarket adapter alone, with further calls of connect()            *)

NextReconnect ==
    \/ PStartAlone
    \/ PConnectAgain
    \/ PHandlerOpen
    \/ PHandlerOpenFail
    \/ POnConnect
    \/ POnConnectFail
    \/ \E m \in PBooks \cup PMalformed : PRecv(m)
    \/ PConnectionClosed

SpecReconnect == Init /\ [][NextReconnect]_vars

-----------------------------------------------------------------------------
(* message_consumer fed summaries of books drawn from a set of best levels, *)
(* so that either strategy, and a tie between them, is selected             *)

\* Number of events each callback puts on the queue.
MaxLegsEvents == 1

\* best ask levels of a Polymarket token
PLegsAsks == {PLevel("0.02", "1"), PLevel("0.40", "20000"), PLevel("0.60", "3")}

\* last "no" levels of a Kalshi ticker: best asks of 97, 50 and 2 cents
KLegsNo == {<<3, 20000>>, <<50, 20000>>, <<98, 2>>}

\* the replica of the Polymarket adapter with the best asks d_ask and a_ask
PLegsBook(d_ask, a_ask) ==
    [a \in PAssets |->
        [outcome |-> POutcome(a), bids |-> PSnapOne,
         asks |-> IF a = "tokD" THEN <<d_ask>> ELSE <<a_ask>>,
         timestamp |-> "t1", spread |-> None, mid |-> None]]

\* the replica of the Kalshi adapter with the last "no" levels lad_no and az_no
KLegsBook(lad_no, az_no) ==
    [t \in KTickers |->
        [market_ticker |-> t, yes |-> << >>,
         no |-> IF t = "LAD" THEN <<lad_no>> ELSE <<az_no>>]]

\* The Polymarket callback puts the summary of such a replica on the queue.
LegsPolymarketEvent ==
    /\ pstate = "streaming"
    /\ qput["polymarket"] < MaxLegsEvents
    /\ \E d_ask \in PLegsAsks, a_ask \in PLegsAsks :
          QueuePutNowait("polymarket", PEvent(PGetBestBidAsks(PLegsBook(d_ask, a_ask))))
    /\ UNCHANGED <<kvars, pvars, mvars, avars, tvars>>

\* The Kalshi callback puts the summary of such a replica on the queue.
LegsKalshiEvent ==
    /\ pstate = "streaming"
    /\ qput["kalshi"] < MaxLegsEvents
    /\ \E lad_no \in KLegsNo, az_no \in KLegsNo :
          QueuePutNowait("kalshi", KEvent(KGetBestOffers(KLegsBook(lad_no, az_no))))
    /\ UNCHANGED <<kvars, pvars, mvars, avars, tvars>>

NextLegs ==
    \/ MainStart
    \/ MainPConnect
    \/ PHandlerOpen
    \/ POnConnect
    \/ LegsPolymarketEvent
    \/ LegsKalshiEvent
    \/ ConsumerGet

SpecLegs == Init /\ [][NextLegs]_vars

-----------------------------------------------------------------------------
(* Properties of the replicas and adapters *)

KStrictlyAscending(arr) == \A i \in 1..(Len(arr) - 1) : arr[i][1] < arr[i + 1][1]

KAllLevels(ob) ==
    UNION {{ob[t][s][i] : i \in 1..Len(ob[t][s])} : t \in DOMAIN ob, s \in KSides}

KHasPrice(arr, price) == \E i \in 1..Len(arr) : arr[i][1] = price

KLastIs(S) == klast # None /\ klast[1] \in S

PLastIs(S) == plast # None /\ plast[1] \in S

\* C1: after a snapshot with strictly ascending sides and any sequence of
\* deltas, every side list of the Kalshi replica is strictly ascending by
\* price (hence without duplicate prices).
C1_KalshiSidesAscending ==
    \A t \in DOMAIN korderbook : \A s \in KSides : KStrictlyAscending(korderbook[t][s])

\* C1 witness: a delta has inserted a level between two existing ones.
C1_Witness ==
    /\ KLastIs(KDeltas)
    /\ kout = "none"
    /\ LET m == klast[1].msg
       IN  /\ m.market_ticker \in DOMAIN korderbook
           /\ Len(korderbook[m.market_ticker][m.side]) = 3
           /\ korderbook[m.market_ticker][m.side][2][1] = m.price

\* C2: no side list of the Kalshi replica ever holds a level whose quantity is
\* zero or negative.
C2_KalshiQuantitiesPositive ==
    \A level \in KAllLevels(korderbook) : level[2] > 0

\* C3: a delta <= 0 for a price absent from the target side leaves that side
\* unchanged, wherever the price falls relative to the existing levels.
C3_NonPositiveAbsentIsNoop ==
    [][ \A m \in KDeltas :
            ( /\ kcount' = kcount + 1
              /\ klast' = <<m>>
              /\ m.msg.market_ticker \in DOMAIN korderbook
              /\ m.msg.delta <= 0
              /\ ~KHasPrice(korderbook[m.msg.market_ticker][m.msg.side], m.msg.price) )
            => korderbook' = korderbook ]_vars

PAllLevels(ob) ==
    UNION {{ob[a].bids[i] : i \in 1..Len(ob[a].bids)} \cup
           {ob[a].asks[i] : i \in 1..Len(ob[a].asks)} : a \in DOMAIN ob}

\* C4: after any sequence of book and price_change messages no bids or asks
\* list of the Polymarket replica holds a zero-size level.
C4_PolymarketNoZeroSize ==
    pstate = "streaming" => \A level \in PAllLevels(porderbook) : level.size.v # "0"

\* C5: applying the same snapshot message twice in a row leaves the side
\* lists and the best-offers summary as they were after the first, for the
\* Kalshi replica and for the Polymarket replica.
C5_SnapshotIdempotent ==
    [][ /\ ( kcount' = kcount + 1 /\ klast' = klast /\ klast'[1] \in KSnapshots )
           => /\ korderbook' = korderbook
              /\ kbest' = kbest
              /\ kbest' = <<KGetBestOffers(korderbook')>>
        /\ ( pcount' = pcount + 1 /\ plast' = plast /\ plast'[1] \in PBooks )
           => /\ porderbook' = porderbook
              /\ PGetBestBidAsks(porderbook') = PGetBestBidAsks(porderbook) ]_vars

\* C5 witness: a snapshot has just been applied for the second time in a row
\* and the adapter is still streaming.
C5_Witness ==
    \/ krepeat /\ KLastIs(KSnapshots) /\ kstate = "streaming"
    \/ prepeat /\ PLastIs(PBooks) /\ pstate = "streaming"

KBidAsk(ob) == [t \in DOMAIN ob |-> <<KBestOfBook(ob[t]).best_bid, KBestOfBook(ob[t]).best_ask>>]

\* C6: a snapshot followed by deltas yields the same best_bid / best_ask as a
\* snapshot of the book the reference ledger semantics produce.
C6_DeltaSnapshotEquivalence ==
    KBidAsk(korderbook) = KBidAsk(kref)

\* C7: a delta for a ticker without a book is a no-op that does not end
\* message handling: the handler is not terminated by it.
C7_DeltaBeforeSnapshotTolerated ==
    ( KLastIs(KDeltas) /\ klast[1].msg.market_ticker \notin DOMAIN korderbook )
        => ~(kstate = "returned" /\ kout = "on_error")

\* C8: a malformed message is dropped and the adapter goes on reading: neither
\* read loop is ended by it.
C8_DecodeErrorKeepsStreaming ==
    /\ KLastIs(KMalformed) => ~(kstate = "returned" /\ kout = "on_error")
    /\ PLastIs(PMalformed) => ~(pstate = "done" /\ pout = "error")

\* C10: when the connection of an adapter drops, the caller of connect()
\* observes a failure: the Kalshi connect() raises, the Polymarket handler task
\* ends with an exception.
C10_TransportErrorSurfaced ==
    /\ kout = "on_close" => kstate = "raised"
    /\ pout = "closed" => pstate = "failed"

\* An adapter's connection has dropped or its read loop has failed.
AdapterFailed ==
    \/ kout \in {"send_error", "on_close", "on_error"}
    \/ pout \in {"closed", "error"}

\* C9: when an adapter's connection drops or its read loop fails, no
\* exception of that adapter task terminates the sibling adapter task or the
\* consumer task.
C9_FailureIsolation ==
    (AdapterFailed /\ mcause = "task_exception")
        => (cstate # "cancelled" /\ pstate # "cancelled")

-----------------------------------------------------------------------------
(* Properties of the arbitrage engine *)

\* the check_arbitrage result of the strategy check_markets_arbitrage selected
SelectedPair(e) == IF e.result.market1_action = <<0>> THEN e.pm1 ELSE e.pm2

\* fee_rate * shares * price * (1 - price) rounded up to whole cents, by exact
\* arithmetic: the numerator is in 1e-6 dollars
FeeByFormula(price, shares) == (FeeRate * shares * price * (100 - price) + 9999) \div 10000

Max(a, b) == IF a >= b THEN a ELSE b

IsExampleCall(e) ==
    e.m1_yes = 22 /\ e.m1_no = 81 /\ e.m2_yes = 19 /\ e.m2_no = 86 /\ e.shares = 100

\* C13 as stated: for m1_yes=0.22, m1_no=0.81, m2_yes=0.19, m2_no=0.86 and 100
\* shares check_markets_arbitrage reports an opportunity with a non-null
\* strategy and a positive profit for both outcomes.
C13_ExampleIsOpportunity ==
    (eng # None /\ IsExampleCall(eng[1])) =>
        /\ eng[1].result.is_arbitrage
        /\ eng[1].result.strategy # None
        /\ SelectedPair(eng[1]).pnl_if_win > 0
        /\ SelectedPair(eng[1]).pnl_if_lose > 0

\* C13 amended: for these inputs check_markets_arbitrage reports no
\* opportunity: is_arbitrage is false, strategy, actions and profit_per_share
\* are null, and the two computed profits are -8.85 and -1.08.
C13_ExampleIsNoOpportunity ==
    (eng # None /\ IsExampleCall(eng[1])) =>
        /\ ~eng[1].result.is_arbitrage
        /\ eng[1].result.strategy = None
        /\ eng[1].result.market1_action = None
        /\ eng[1].result.market2_action = None
        /\ eng[1].result.profit_per_share = None
        /\ eng[1].result.market1_pnl = 0 - 885
        /\ eng[1].result.market2_pnl = 0 - 108

\* C13 witness: the example call was made after the Polymarket adapter had
\* connected.
C13_Witness == eng # None /\ IsExampleCall(eng[1]) /\ pstate = "streaming"

\* C14: calculate_kalshi_fees returns the smallest whole-cent amount that is
\* >= fee_rate * shares * price * (1 - price): it rounds up, never to nearest
\* and never down.
C14_FeeRoundsUp ==
    eng # None =>
        /\ eng[1].fee_no = FeeByFormula(eng[1].m2_no, eng[1].shares)
        /\ eng[1].fee_yes = FeeByFormula(eng[1].m2_yes, eng[1].shares)

\* C15: when check_markets_arbitrage reports an opportunity, the selected
\* strategy is the one with the higher of the two computed profits,
\* profit_per_share = max(profit1, profit2) > 0, and on a tie it selects
\* market1_action = 1 / market2_action = 0.
C15_SelectsHigherProfit ==
    (eng # None /\ eng[1].result.is_arbitrage) =>
        LET r == eng[1].result
        IN  /\ r.profit_per_share = <<Max(r.market1_pnl, r.market2_pnl)>>
            /\ r.profit_per_share[1] > 0
            /\ (r.market1_pnl > r.market2_pnl) => (r.market1_action = <<0>> /\ r.market2_action = <<1>>)
            /\ (r.market1_pnl < r.market2_pnl) => (r.market1_action = <<1>> /\ r.market2_action = <<0>>)
            /\ (r.market1_pnl = r.market2_pnl) => (r.market1_action = <<1>> /\ r.market2_action = <<0>>)

\* C15 witness: a call reported an opportunity in which the two strategies
\* have the same profit.
C15_Witness ==
    /\ eng # None
    /\ eng[1].result.is_arbitrage
    /\ eng[1].result.market1_pnl = eng[1].result.market2_pnl

-----------------------------------------------------------------------------
(* Properties of message_consumer *)

\* the last iteration accepted an opportunity and added its trade to the totals
Accepted == chist.path = "submitted"

\* price in cents and quantity of a Polymarket / Kalshi best ask
PmAskPrice(ask) == Decimal(ask[1])
PmAskSize(ask) == DecimalSize(ask[2].v)

\* C16: sizing.  After every accepted opportunity the trade size is the
\* minimum of the best-ask quantities of the selected Polymarket outcome and
\* the selected Kalshi ticker and is strictly positive, total_profit has grown
\* by profit_per_share * size, and total_cost has grown by
\* (Polymarket ask price + Kalshi ask price / 100) * size.
C16_Sizing ==
    Accepted =>
        /\ chist.trade[1].pm_ask
             = cons.polymarket_offers[Markets[chist.result[1].market1_action[1] + 1]].best_ask
        /\ chist.trade[1].kalshi_ask
             = cons.kalshi_offers[Markets[chist.result[1].market2_action[1] + 3]].best_ask
        /\ chist.trade[1].trade_size = Min(PmAskSize(chist.trade[1].pm_ask),
                                           chist.trade[1].kalshi_ask[2])
        /\ chist.trade[1].trade_size > 0
        /\ cons.total_profit - chist.before.total_profit
             = chist.result[1].profit_per_share[1] * chist.trade[1].trade_size
        /\ cons.total_cost - chist.before.total_cost
             = (PmAskPrice(chist.trade[1].pm_ask) + chist.trade[1].kalshi_ask[1])
               * chist.trade[1].trade_size

\* the best-ask (price, size) tuple of each monitored market in the offers the
\* consumer holds: None where the market has no entry yet
MonitoredAsks(c) ==
    [i \in 1..4 |->
        IF i <= 2
        THEN IF Markets[i] \in DOMAIN c.polymarket_offers
             THEN <<c.polymarket_offers[Markets[i]].best_ask>> ELSE None
        ELSE IF Markets[i] \in DOMAIN c.kalshi_offers
             THEN <<c.kalshi_offers[Markets[i]].best_ask>> ELSE None]

\* the last dequeued event followed another one and left the four monitored
\* best asks as that one had left them
SecondOfIdenticalPair == chist.n >= 2 /\ MonitoredAsks(chist.before) = MonitoredAsks(cons)

\* C17: deduplication.  When two consecutive dequeued events leave the four
\* monitored best-ask (price, size) tuples identical, the second event changes
\* neither total_profit nor total_cost and triggers no trade.
C17_Deduplication ==
    SecondOfIdenticalPair =>
        /\ cons.total_profit = chist.before.total_profit
        /\ cons.total_cost = chist.before.total_cost
        /\ ~Accepted
        /\ chist.trade = None

\* C17 witness: an event repeating the best asks that were just traded was
\* skipped as a repeated signal.
C17_Witness ==
    /\ SecondOfIdenticalPair
    /\ chist.path = "no_price_change"
    /\ chist.before.total_profit > 0
    /\ chist.before.prev_price_levels = PriceLevels(chist.data[1])

\* C18: suppression is relative to the last evaluation.  An opportunity is
\* skipped as a repeated signal only when its four raw price levels are those
\* of the immediately preceding evaluation; an opportunity at other prices than
\* the preceding evaluation's is not suppressed.
C18_SuppressionRelativeToLastEvaluation ==
    chist.path = "no_price_change" =>
        /\ chist.last_eval # None
        /\ PriceLevels(chist.data[1]) = PriceLevels(chist.last_eval[1])

\* the last iteration reached the evaluation / took a continue before it
EvaluationCompleted == chist.result # None
SkippedBeforeEvaluation == chist.path \in {"missing_market_data", "missing_best_ask"}

\* the last iteration took the regime from active to inactive
RegimeWentInactive == chist.before.arbitrage_regime /\ ~cons.arbitrage_regime

\* C19: regime tracking.  After every completed evaluation the regime flag
\* is active exactly when that evaluation was an opportunity; an event skipped
\* for missing market data or a missing best_ask leaves the flag unchanged;
\* each transition from active to inactive appends exactly one duration to
\* arbitrage_times.
C19_RegimeTracking ==
    /\ EvaluationCompleted =>
            (cons.arbitrage_regime <=> chist.result[1].is_arbitrage)
    /\ SkippedBeforeEvaluation =>
            (cons.arbitrage_regime <=> chist.before.arbitrage_regime)
    /\ RegimeWentInactive =>
            /\ Len(cons.arbitrage_times) = Len(chist.before.arbitrage_times) + 1
            /\ SubSeq(cons.arbitrage_times, 1, Len(chist.before.arbitrage_times))
                  = chist.before.arbitrage_times

\* C19 witness: a non-opportunity evaluation ended an active regime and its
\* duration was recorded.
C19_Witness ==
    /\ EvaluationCompleted
    /\ ~chist.result[1].is_arbitrage
    /\ RegimeWentInactive
    /\ Len(cons.arbitrage_times) = 1

\* C20: total_profit and total_cost are monotonic counters.  No processed
\* event decreases or resets either total, and every accepted opportunity
\* increases both by a strictly positive amount.
C20_TotalsMonotonic ==
    /\ cons.total_profit >= chist.before.total_profit
    /\ cons.total_cost >= chist.before.total_cost
    /\ Accepted =>
            /\ cons.total_profit > chist.before.total_profit
            /\ cons.total_cost > chist.before.total_cost

-----------------------------------------------------------------------------
(* Properties of the queue between the adapters and the consumer *)

\* the events of one source waiting in the queue, front first
QueuedOf(source_name) ==
    LET FromSource(e) == e[1] = source_name
    IN  SelectSeq(queue, FromSource)

\* C21: per-producer FIFO.  Under any interleaving of the two callbacks the
\* consumer dequeues the events of each adapter in the order the adapter put
\* them, each at most once, and the queue drops none: the events of a source
\* still waiting are exactly those put after the one dequeued last, in order.
C21_PerProducerFifo ==
    \A s \in Sources :
        /\ Len(QueuedOf(s)) = qput[s] - qgot[s]
        /\ \A i \in 1..Len(QueuedOf(s)) : QueuedOf(s)[i][3] = qgot[s] + i

\* C21 witness: events of both adapters have been dequeued while events of
\* both are waiting, those of Kalshi not all in front of those of Polymarket.
C21_Witness ==
    /\ qgot["kalshi"] >= 1
    /\ qgot["polymarket"] >= 1
    /\ Len(queue) >= 3
    /\ queue[1][1] = "polymarket"
    /\ queue[2][1] = "kalshi"
    /\ queue[3][1] = "polymarket"

\* the consumer has processed events and none is waiting
QueueDrained == chist.n >= 1 /\ queue = << >>

\* C22: no lost updates.  Once the consumer has drained the queue,
\* total_profit is the sum of the profits and total_cost the sum of the costs
\* of all the opportunities it accepted, whatever the interleaving of the
\* producers.
C22_NoLostUpdates ==
    QueueDrained =>
        /\ cons.total_profit = chist.sum_profit
        /\ cons.total_cost = chist.sum_cost

\* the step dequeues the event at the front of the queue
Dequeues == queue # << >> /\ queue' = Tail(queue)

\* C23: joint-view update.  On dequeuing an event of one venue the consumer
\* replaces its stored offers of that venue by the event's best_offers and
\* leaves the stored offers of the other venue unchanged; an evaluation uses
\* the best asks of the offers stored for both venues after that update.
C23_JointViewUpdate ==
    [][ Dequeues =>
            /\ Head(queue)[1] = "polymarket" =>
                    /\ cons'.polymarket_offers = Head(queue)[2].best_offers
                    /\ cons'.kalshi_offers = cons.kalshi_offers
            /\ Head(queue)[1] = "kalshi" =>
                    /\ cons'.kalshi_offers = Head(queue)[2].best_offers
                    /\ cons'.polymarket_offers = cons.polymarket_offers
            /\ chist'.result # None =>
                    /\ chist'.data = <<BestAskData(cons')>>
                    /\ chist'.result = <<Evaluate(BestAskData(cons'), prec)>> ]_vars

\* C23 witness: a Polymarket event replaced offers already stored for
\* Polymarket, the Kalshi offers stayed, and the evaluation that followed used
\* the new Polymarket best asks with the Kalshi ones.
C23_Witness ==
    /\ chist.result # None
    /\ chist.before.polymarket_offers # << >>
    /\ chist.before.polymarket_offers # cons.polymarket_offers
    /\ chist.before.kalshi_offers = cons.kalshi_offers
    /\ chist.data = <<BestAskData(cons)>>

-----------------------------------------------------------------------------
(* Properties of the shutdown of main *)

\* the finally clause of main has cancelled and awaited its tasks
MainCleanupCompleted == mstate \in {"returned", "closed"}

\* the read loop of an adapter, or the task that is about to enter it, is alive
KalshiHandlerRunning == kstate \in {"connecting", "open", "streaming"}
PolymarketHandlerRunning == pstate \in {"created", "open", "streaming"}

\* C24: cancellation.  On shutdown of main the Kalshi handler, the Polymarket
\* websocket_handler task and the consumer task are cancelled together: once
\* the cleanup of main has completed none of them is still running.
C24_CancelledTogether ==
    MainCleanupCompleted =>
        /\ ~KalshiHandlerRunning
        /\ ~PolymarketHandlerRunning
        /\ cstate # "running"

-----------------------------------------------------------------------------
(* Properties of the decimal context *)

\* C25: the process-wide decimal precision is set once at startup and never
\* changes afterwards: no inbound message and no adapter action modifies
\* getcontext().prec while the adapters and the consumer are running.
C25_PrecisionNeverChanges == [][prec' = prec]_vars

-----------------------------------------------------------------------------
(* Properties of the publication of Venue Events *)

\* the step processes one inbound message and leaves the adapter streaming
KProcessesMessage == kcount' = kcount + 1 /\ kstate' = "streaming"
PProcessesMessage == pcount' = pcount + 1 /\ pstate' = "streaming"

\* the step puts one event of the source at the back of the queue
PublishesOne(source_name) ==
    /\ qput'[source_name] = qput[source_name] + 1
    /\ Len(queue') = Len(queue) + 1
    /\ Last(queue')[1] = source_name

\* C26: while an adapter is streaming, every inbound message it processes is
\* followed by the publication of one Venue Event that carries the resulting
\* full best-offers summary, for the Kalshi and for the Polymarket adapter.
C26_EveryMessagePublishes ==
    [][ /\ KProcessesMessage =>
              /\ PublishesOne("kalshi")
              /\ Last(queue')[2] = KEvent(KGetBestOffers(korderbook'))
        /\ PProcessesMessage =>
              /\ PublishesOne("polymarket")
              /\ Last(queue')[2] = PEvent(PGetBestBidAsks(porderbook')) ]_vars

-----------------------------------------------------------------------------
(* Properties of empty sides *)

\* the last Kalshi message was a snapshot or a delta of an instrument whose
\* book now has an empty side
KEmptySideLeft ==
    /\ KLastIs(KSnapshots \cup KDeltas)
    /\ klast[1].msg.market_ticker \in DOMAIN korderbook
    /\ \E s \in KSides : korderbook[klast[1].msg.market_ticker][s] = << >>

\* the Kalshi summary reports the best offer of every empty side as None
KEmptySideAbsent ==
    LET t == klast[1].msg.market_ticker
        best == KGetBestOffers(korderbook)[t]
    IN  /\ korderbook[t].yes = << >> => best.best_bid = None
        /\ korderbook[t].no = << >> => best.best_ask = None

\* the last Polymarket message was a book or a price_change of an instrument
\* whose book now has an empty side
PEmptySideLeft ==
    /\ PLastIs(PBooks \cup PPriceChanges)
    /\ PSpreadRaises(porderbook[plast[1].asset_id])

\* the Polymarket summary reports no best offer for the instrument
PEmptySideAbsent ==
    POutcome(plast[1].asset_id) \notin DOMAIN PGetBestBidAsks(porderbook)

\* C27: when a snapshot or a delta leaves one side of an instrument's book
\* empty, the replica processes the message without raising and the summary
\* reports the best offer of that side as absent, for the Kalshi and for the
\* Polymarket replica.
C27_EmptySidesAbsent ==
    /\ KEmptySideLeft => kout # "on_error" /\ KEmptySideAbsent
    /\ PEmptySideLeft => pout # "error" /\ PEmptySideAbsent

-----------------------------------------------------------------------------
(* Properties of the Polymarket best offers *)

\* best_bid is the highest-priced level of bids
BestBidIsHighest(book, best) ==
    \A i \in 1..Len(book.bids) : Decimal(book.bids[i].price) <= Decimal(best.best_bid[1])

\* best_ask is the lowest-priced level of asks
BestAskIsLowest(book, best) ==
    \A i \in 1..Len(book.asks) : Decimal(book.asks[i].price) >= Decimal(best.best_ask[1])

\* C28: after any sequence of book snapshots (sides ascending by price) and
\* price_change messages, the best_bid the Polymarket replica reports is the
\* highest-priced level of the bids list and the best_ask it reports is the
\* lowest-priced level of the asks list.
C28_BestOffersMostCompetitive ==
    pstate = "streaming" =>
        \A o \in DOMAIN PGetBestBidAsks(porderbook) :
            LET best == PGetBestBidAsks(porderbook)[o]
            IN  /\ BestBidIsHighest(porderbook[best.token_id], best)
                /\ BestAskIsLowest(porderbook[best.token_id], best)

-----------------------------------------------------------------------------
(* Properties of price_change batches *)

SameSidePrice(c1, c2) == c1.side = c2.side /\ Decimal(c1.price) = Decimal(c2.price)

\* entry i is the last of several entries of the batch with its (side, price)
LastOfRepeated(changes, i) ==
    /\ \E j \in 1..(i - 1) : SameSidePrice(changes[j], changes[i])
    /\ \A j \in (i + 1)..Len(changes) : ~SameSidePrice(changes[j], changes[i])

PSideOf(book, side) == IF side = "BUY" THEN book.bids ELSE book.asks

LevelsAt(arr, price) == {k \in 1..Len(arr) : Decimal(arr[k].price) = Decimal(price)}

\* C29: a price_change message applies its changes in message order, each
\* visible to the next: when the same (side, price) appears more than once in
\* one batch, the side holds one level at that price after the message, and
\* the size of that level is the size of the last such entry.
C29_BatchLastEntryWins ==
    PLastIs(PBatchMessages) /\ PIsEvent(plast[1], "price_change") =>
        \A i \in 1..Len(plast[1].changes) :
            LastOfRepeated(plast[1].changes, i) =>
                LET c == plast[1].changes[i]
                    arr == PSideOf(porderbook[plast[1].asset_id], c.side)
                IN  /\ Cardinality(LevelsAt(arr, c.price)) = 1
                    /\ \A k \in LevelsAt(arr, c.price) : arr[k].size = c.size

\* a batch with two entries of different sizes at one (side, price) was
\* processed and the adapter is still streaming
C29_Witness ==
    /\ PLastIs(PBatchMessages) /\ PIsEvent(plast[1], "price_change")
    /\ pstate = "streaming"
    /\ \E i \in 1..Len(plast[1].changes) :
          /\ LastOfRepeated(plast[1].changes, i)
          /\ \E j \in 1..(i - 1) :
                /\ SameSidePrice(plast[1].changes[j], plast[1].changes[i])
                /\ plast[1].changes[j].size # plast[1].changes[i].size

-----------------------------------------------------------------------------
(* Properties of the end of the Polymarket handler *)

\* the websocket_handler task has ended: normally, with an exception, or cancelled
PHandlerTerminated == pstate \in {"done", "failed", "cancelled"}

\* is_connected()
IsConnected == prunning /\ pwebsocket

\* C30: whenever the Polymarket websocket_handler task has terminated, for
\* any reason (connection closed, exception while processing a message,
\* failure during on_connect), is_connected() returns false and _running is
\* false, so a later connect() is not rejected as already connected.
C30_TerminatedMeansDisconnected ==
    PHandlerTerminated => ~IsConnected /\ ~prunning

-----------------------------------------------------------------------------
(* Properties of repeated connect() *)

\* C31: at most one Polymarket websocket_handler task is active per client:
\* calling connect() again before the client has disconnected, also before
\* the first handler task has started running, starts no second handler task
\* and does not overwrite the reference to the first task.
C31_SingleHandlerTask == pextra = 0 /\ ptask <= 1

-----------------------------------------------------------------------------
(* Properties of the acknowledgement of events *)

-----------------------------------------------------------------------------
(* Properties of the regime bookkeeping *)

\* C33: in every reachable state of message_consumer, arbitrage_start is set
\* exactly when the regime flag is active, and the length of arbitrage_times
\* equals the number of active -> inactive transitions so far.
C33_RegimeBookkeeping ==
    /\ (cons.arbitrage_start # None) <=> cons.arbitrage_regime
    /\ Len(cons.arbitrage_times) = chist.regime_ends

\* a regime has ended and another one is active
C33_Witness ==
    /\ chist.regime_ends >= 1
    /\ cons.arbitrage_regime
    /\ cons.arbitrage_start # None

-----------------------------------------------------------------------------
(* Properties of the legs of a trade *)

\* the (Polymarket outcome, Kalshi ticker) pairs of opposite outcomes
OppositeOutcomes == {<<Markets[1], Markets[4]>>, <<Markets[2], Markets[3]>>}

\* the legs of the trade t are the ones the result selects among the best
\* asks evaluated, and their prices give the selected profit per share
LegsAsEvaluated(result, t, data, p) ==
    /\ t.pm_outcome_name = Markets[result.market1_action[1] + 1]
    /\ t.kalshi_ticker_to_buy = Markets[result.market2_action[1] + 2 + 1]
    /\ <<t.pm_outcome_name, t.kalshi_ticker_to_buy>> \in OppositeOutcomes
    /\ t.pm_ask = data[result.market1_action[1] + 1]
    /\ t.kalshi_ask = data[result.market2_action[1] + 2 + 1]
    /\ result.profit_per_share[1] =
           CheckArbitrage(Decimal(t.pm_ask[1]), Round(t.kalshi_ask[1], p), 1, p).pnl_if_win

\* C34: whenever is_arbitrage is true, market1_action + market2_action = 1;
\* the Polymarket leg of every accepted trade is markets[market1_action] and
\* the Kalshi leg is markets[market2_action + 2], the opposite outcome; the
\* best-ask entries used for cost and sizing are the ones whose prices
\* produced the selected profit_per_share.
C34_LegsComplementary ==
    /\ (chist.result # None /\ chist.result[1].is_arbitrage) =>
            chist.result[1].market1_action[1] + chist.result[1].market2_action[1] = 1
    /\ chist.path = "submitted" =>
            LegsAsEvaluated(chist.result[1], chist.trade[1], chist.data[1], chist.prec)

\* a trade was accepted with the second strategy, Diamondbacks on Polymarket
\* and LAD on Kalshi, at best asks that differ from those of the other two legs
C34_Witness ==
    /\ chist.path = "submitted"
    /\ chist.result[1].market1_action = <<1>>
    /\ chist.trade[1].pm_outcome_name = Markets[2]
    /\ chist.trade[1].kalshi_ticker_to_buy = Markets[3]
    /\ chist.data[1][1] # chist.data[1][2]
    /\ chist.data[1][3] # chist.data[1][4]

====
